---- MODULE Spec2Model ----
(***************************************************************************)
(* autoComplete.js: the widget instance (src/src/autoComplete.js) and the  *)
(* controllers it drives.  Strings are sequences of one-character strings. *)
(* The instance is the record `this`; the document's live result lists,    *)
(* the page's input element, the debouncer's timers and the calls          *)
(* suspended at an await are the rest of the state.  `obs` is the output   *)
(* of the last step: the calls made and events emitted, in order, and      *)
(* whether the call threw.  this.inputField is a reference: to the page's  *)
(* input element, or null once init() was handed null; the listeners, the  *)
(* timers and the suspended calls an instance has made stay what they are  *)
(* whatever init() is handed later.                                        *)
(***************************************************************************)
EXTENDS Integers, Sequences, FiniteSets, TLC

VARIABLES this, inputField, lists, flights, timers, phase, obs

vars == <<this, inputField, lists, flights, timers, phase, obs>>

\* ---------------------------------------------------------------- bounds
\* asynchronous work that may be in flight at the same time: calls
\* suspended at an await and debounce timers pending
MaxInFlight == 2
\* debounced closures one instance may create: init() calls, the
\* constructor's included
MaxHooks == 2
\* longest query of the matching inputs; a record is up to one letter
\* longer
MaxLen == 2

\* ------------------------------------------------------------- constants
\* JavaScript values: undefined, an array, a function
Undefined == [type |-> "undefined", value |-> <<>>]
Array(a) == [type |-> "object", value |-> a]
Function == [type |-> "function", value |-> <<>>]
\* a callback that was not configured, a call without a target
NoFn == "undefined"
NoTarget == "undefined"
\* the comparator of a configuration that sorts nothing (sort = false)
NoSort == "false"
\* references to DOM nodes: the page's input element is "inputField", the
\* result of a query that matched nothing is "null"
\* a selector is a string handed to querySelector, or a function that
\* returns the element itself
Selector(string) == [type |-> "string", value |-> string]
SelectorFn(element) == [type |-> "function", value |-> element]
DefaultSelector == Selector("#autoComplete")
\* document.querySelector on a page whose only input has id autoComplete
querySelector(selector) ==
  IF selector = "#autoComplete" THEN "inputField" ELSE "null"
\* the page's input element before any instance is attached to it
PageInput == [value |-> <<>>, listeners |-> {}, placeholder |-> "undefined"]

apple   == <<"a","p","p","l","e">>
apricot == <<"a","p","r","i","c","o","t">>
banana  == <<"b","a","n","a","n","a">>
grape   == <<"g","r","a","p","e">>

\* what data.src can be or deliver
DataA == <<apple, apricot, banana, grape>>
DataB == <<apple, banana>>
Datasets == {DataA}

\* values the user can leave in the input field
InputValues == { <<>>, <<"a","p">>, <<"z","z","z">> }

EventTypes == {"input", "focus"}
EventLists == { <<"input">>, <<"input","focus">>, <<"focus">> }

\* the matching inputs: queries and records over a two-letter alphabet, a
\* record being up to one letter longer than a query so that letters of the
\* query can lie apart in it, stores of none, one or two such records (the
\* order of the matches is a matter of two records), and the store of the
\* documented scenario
Alphabet == {"a", "p"}
Strings == UNION { [1..n -> Alphabet] : n \in 0..MaxLen }
Records == UNION { [1..n -> Alphabet] : n \in 1..(MaxLen + 1) }
Stores == UNION { [1..n -> Records] : n \in 0..2 }
ScenarioStore == <<apple, banana, grape>>

Range(s) == {s[i] : i \in DOMAIN s}

Min(a, b) == IF a < b THEN a ELSE b

\* Array.prototype.slice(begin, end) for integer arguments
RelIndex(n, len) == IF n < 0 THEN (IF len + n < 0 THEN 0 ELSE len + n) ELSE Min(n, len)
slice(s, begin, end) ==
  LET b == RelIndex(begin, Len(s))
      e == RelIndex(end, Len(s))
  IN IF e <= b THEN <<>> ELSE [i \in 1..(e - b) |-> s[b + i]]

RemoveAt(s, i) == [j \in 1..(Len(s) - 1) |-> IF j < i THEN s[j] ELSE s[j + 1]]

\* --------------------------------------------------------- host functions
\* The host's callbacks are functions the widget only calls.  A configured
\* query interceptor is modelled by one that drops leading "z" padding, a
\* configured trigger condition by one that accepts queries starting "a".
RECURSIVE DropZ(_)
DropZ(s) == IF s # <<>> /\ s[1] = "z" THEN DropZ(Tail(s)) ELSE s
ApplyQuery(fn, input) == IF fn = "dropZ" THEN DropZ(input) ELSE input
ApplyCondition(fn, query) == fn = "startsA" /\ query # <<>> /\ query[1] = "a"

\* ------------------------------------------------------- data controller
\* getInputValue(inputField): the raw value of the element the reference
\* points to.  What it does with null, the reference of an instance that
\* init() left without an input field, is not defined: reading the value
\* throws a TypeError, or a guarded read yields the empty string.  The
\* result is the set of the reads that can happen
getInputValue(ref, field) ==
  IF ref = "null"
    THEN { [threw |-> TRUE, value |-> <<>>], [threw |-> FALSE, value |-> <<>>] }
    ELSE { [threw |-> FALSE, value |-> field.value] }

prepareQueryValue(input, queryFn) ==
  IF queryFn = NoFn THEN input ELSE ApplyQuery(queryFn, input)

checkTriggerCondition(self, query) ==
  \/ Len(query) >= self.threshold
  \/ self.trigger.condition # NoFn /\ ApplyCondition(self.trigger.condition, query)

\* strict engine that looks for the query at the start of the record only
IsSubstring_atStart(q, r) ==
  Len(q) <= Len(r) /\ \A i \in 1..Len(q) : r[i] = q[i]

\* strict engine: query is a contiguous substring of the record
IsSubstring(q, r) ==
  \E k \in 0..(Len(r) - Len(q)) : \A i \in 1..Len(q) : r[k + i] = q[i]

\* loose engine: the characters of query occur in the record in order
RECURSIVE IsSubsequence(_, _)
IsSubsequence(q, r) ==
  IF q = <<>> THEN TRUE
  ELSE IF r = <<>> THEN FALSE
  ELSE IF q[1] = r[1] THEN IsSubsequence(Tail(q), Tail(r))
  ELSE IsSubsequence(q, Tail(r))

search(engine, q, r) ==
  IF engine = "loose" THEN IsSubsequence(q, r) ELSE IsSubstring(q, r)

\* loose engine: the place of each character of the query in the record,
\* each taken at its first occurrence after the one before
RECURSIVE Places(_, _, _)
Places(q, r, from) ==
  IF q = <<>> THEN <<>>
  ELSE LET k == CHOOSE j \in from..Len(r) :
                  r[j] = q[1] /\ \A l \in from..(j - 1) : r[l] # q[1]
       IN <<k>> \o Places(Tail(q), r, k + 1)

\* the gap size a loose match is scored by: the characters of the record
\* that lie between the matched ones
Gap(q, r) ==
  IF Len(q) <= 1 THEN 0
  ELSE LET p == Places(q, r, 1) IN (p[Len(q)] - p[1] + 1) - Len(q)

\* the score of a match: its gap size under the loose engine; the strict
\* engine scores nothing
Score(engine, q, m) == IF engine = "loose" THEN Gap(q, m.value) ELSE 0

\* the host's comparator for sort: "byLength" puts shorter records first
Weight(sort, m) == IF sort = "byLength" THEN Len(m.value) ELSE 0

\* a sequence put in the order of its elements' keys, elements of one key
\* staying in the order they have (a stable sort)
OrderBy(ms, keys) ==
  LET Rank(j) == Cardinality({k \in DOMAIN ms :
                    \/ keys[k] < keys[j]
                    \/ keys[k] = keys[j] /\ k < j})
  IN [i \in DOMAIN ms |-> ms[CHOOSE j \in DOMAIN ms : Rank(j) = i - 1]]

\* the records of the store the engine accepts, in the order of the store
RECURSIVE Matching(_, _, _, _)
Matching(engine, q, store, i) ==
  IF i > Len(store) THEN <<>>
  ELSE IF search(engine, q, store[i])
       THEN <<[index |-> i, value |-> store[i]]>> \o Matching(engine, q, store, i + 1)
       ELSE Matching(engine, q, store, i + 1)

\* listMatchingResults(instance, query): the matching records, loose
\* matches in the order of their score (ties in the order of the store),
\* then in the order of the host's comparator when sort is configured
listMatchingResults(self, query) ==
  LET matched == Matching(self.searchEngine, query, self.data.store.value, 1)
      scores  == [i \in DOMAIN matched |-> Score(self.searchEngine, query, matched[i])]
      scored  == IF self.searchEngine = "loose" THEN OrderBy(matched, scores) ELSE matched
      weights == [i \in DOMAIN scored |-> Weight(self.sort, scored[i])]
  IN IF self.sort = NoSort THEN scored ELSE OrderBy(scored, weights)

\* ----------------------------------------------------------- event log
Ev(name, detail) == [e |-> name, arg |-> detail]

\* dispatches on the target element; there is nothing to dispatch on when
\* no element was resolved
eventEmitter(target, detail, name) ==
  IF target = "null" THEN <<>> ELSE <<Ev(name, detail)>>

Names(log) == [i \in DOMAIN log |-> log[i].e]


\* ------------------------------------------------------------ debouncer
\* Every debounced closure owns one timer slot; calling it clears its
\* pending timer and sets a new one for the whole delay.  `slots` is the
\* page's pending timers in the order they were set, which is the order
\* timers of one delay expire in.  A timer is a record: hook = the closure
\* that owns it, left = delay still to run, waited = time since it was set,
\* detached = set after unInit().
Timer(h, delay, det) ==
  [hook |-> h, left |-> delay, waited |-> 0, detached |-> det]

debouncer(slots, h, delay, det) ==
  LET Other(t) == t.hook # h
  IN Append(SelectSeq(slots, Other), Timer(h, delay, det))

\* ------------------------------------------------------ list controller
ListNode(feedback) == [query |-> feedback.query, items |-> feedback.results]

\* closeAllLists(instance, clickedTarget?): the rendered lists are removed
\* unless the target, when there is one, is the instance's input field or
\* lies inside the list
closeAllLists(self, ls, target) ==
  IF target # NoTarget /\ target \in {self.inputField, "list"} THEN ls ELSE <<>>

generateList(self, ls, feedback, results) ==
  Append(closeAllLists(self, ls, NoTarget), ListNode(feedback))

\* ------------------------------------------------ navigation controller
\* navigate(instance, feedback), the call being recorded as "navigate",
\* attaches the keydown listener, recorded as "navigation", only when
\* resultsList.navigation is enabled and there are results to move over
navigate(self, feedback) ==
  <<Ev("navigate", feedback)>>
  \o (IF self.resultsList.navigation /\ Len(feedback.results) > 0
        THEN <<Ev("navigation", feedback)>> ELSE <<>>)

\* ----------------------------------------------------------- the widget
\* constructor: the configuration's values with the defaults of the
\* deconstruction
Default(config, field, value) ==
  IF field \in DOMAIN config THEN config[field] ELSE value

\* a value that `||` passes over and `if` takes for false: undefined, null
\* and the empty string
Falsy(v) == v \in {"undefined", "null", ""}

\* Values of the configuration the widget only hands on are kept as they
\* are written: a flag is a Boolean, a tag, an id or a class name a string,
\* a function its name, a missing one "undefined" (NoFn), or "false" where
\* that is the default (content, container)
constructor(config) ==
  LET trigger     == Default(config, "trigger", <<>>)
      resultsList == Default(config, "resultsList", <<>>)
      resultItem  == Default(config, "resultItem", <<>>)
  IN
  [ name         |-> Default(config, "name", "Search"),
    selector     |-> Default(config, "selector", DefaultSelector),
    inputField   |-> "undefined",
    hook         |-> 0,
    data         |-> [ src   |-> config.data.src,
                       key   |-> Default(config.data, "key", "undefined"),
                       cache |-> Default(config.data, "cache", FALSE),
                       store |-> Default(config.data, "store", Undefined) ],
    query        |-> Default(config, "query", NoFn),
    trigger      |-> [ event     |-> Default(trigger, "event", <<"input">>),
                       condition |-> Default(trigger, "condition", NoFn) ],
    searchEngine |-> Default(config, "searchEngine", "strict"),
    diacritics   |-> Default(config, "diacritics", FALSE),
    threshold    |-> Default(config, "threshold", 1),
    debounce     |-> Default(config, "debounce", 0),
    resultsList  |-> [ render      |-> Default(resultsList, "render", TRUE),
                       container   |-> Default(resultsList, "container", "false"),
                       \* destination || this.inputField: every falsy
                       \* destination gives way to this.inputField, which
                       \* init() has not assigned yet
                       destination |-> IF Falsy(Default(resultsList, "destination", "undefined"))
                                         THEN "undefined" ELSE resultsList.destination,
                       position    |-> Default(resultsList, "position", "afterend"),
                       element     |-> Default(resultsList, "element", "ul"),
                       idName      |-> Default(resultsList, "idName", "autoComplete_list"),
                       className   |-> Default(resultsList, "className", "autoComplete_list"),
                       navigation  |-> Default(resultsList, "navigation", FALSE) ],
    sort         |-> Default(config, "sort", NoSort),
    placeHolder  |-> Default(config, "placeHolder", "undefined"),
    maxResults   |-> Default(config, "maxResults", 5),
    resultItem   |-> [ content   |-> Default(resultItem, "content", "false"),
                       element   |-> Default(resultItem, "element", "li"),
                       idName    |-> Default(resultItem, "idName", "autoComplete_result"),
                       className |-> Default(resultItem, "className", "autoComplete_result") ],
    noResults    |-> Default(config, "noResults", NoFn),
    highlight    |-> Default(config, "highlight", FALSE),
    feedback     |-> Default(config, "feedback", NoFn),
    onSelection  |-> Default(config, "onSelection", NoFn) ]

IsFunction(src) == src.type = "function"

Truthy(v) == v.type # "undefined"

\* dataFeedback with the cap applied one element late
dataFeedback_offByOne(self, input, query, results) ==
  [ input   |-> input,
    query   |-> query,
    matches |-> results,
    results |-> slice(results, 0, self.maxResults + 1) ]

\* the data feedback object of one search
dataFeedback(self, input, query, results) ==
  [ input   |-> input,
    query   |-> query,
    matches |-> results,
    results |-> slice(results, 0, self.maxResults) ]

\* what start() hands to the noResults action: the feedback object and
\* generateList
NoResultsArgs(feedback) == [feedback |-> feedback, generateList |-> "generateList"]

\* start without the return after the noResults action: it goes on to the
\* render-disabled check and the rendering
start_noReturn(self, ls, input, query) ==
  LET results  == listMatchingResults(self, query)
      feedback == dataFeedback(self, input, query, results)
      emitted  == <<Ev("start", feedback)>>
                  \o eventEmitter(self.inputField, feedback, "autoComplete.results")
      first    == IF Len(results) = 0 /\ self.noResults # NoFn
                    THEN emitted \o <<Ev("noResults", NoResultsArgs(feedback))>>
                    ELSE emitted
  IN IF ~self.resultsList.render
       THEN IF self.feedback # NoFn
              THEN [ lists |-> ls, threw |-> FALSE,
                     log   |-> first \o <<Ev("feedback", feedback)>> ]
              ELSE [ lists |-> ls, threw |-> TRUE, log |-> first ]
     ELSE [ lists |-> IF Len(results) # 0
                        THEN generateList(self, ls, feedback, results) ELSE ls,
            threw |-> FALSE,
            log   |-> first
                      \o (IF Len(results) # 0 THEN <<Ev("generateList", feedback)>> ELSE <<>>)
                      \o eventEmitter(self.inputField, feedback, "autoComplete.rendered")
                      \o navigate(self, feedback) ]

\* start(input, query): the lists it leaves, what it emitted and called, and
\* whether it threw (calling a feedback handler that is not a function).
\* The entry "start" records the call with the feedback object it built;
\* the events go to this.inputField
start(self, ls, input, query) ==
  LET results  == listMatchingResults(self, query)
      feedback == dataFeedback(self, input, query, results)
      emitted  == <<Ev("start", feedback)>>
                  \o eventEmitter(self.inputField, feedback, "autoComplete.results")
  IN IF Len(results) = 0
       THEN [ lists |-> ls, threw |-> FALSE,
              log   |-> IF self.noResults # NoFn
                          THEN emitted \o <<Ev("noResults", NoResultsArgs(feedback))>>
                          ELSE emitted ]
     ELSE IF ~self.resultsList.render
       THEN IF self.feedback # NoFn
              THEN [ lists |-> ls, threw |-> FALSE,
                     log   |-> emitted \o <<Ev("feedback", feedback)>> ]
              ELSE [ lists |-> ls, threw |-> TRUE, log |-> emitted ]
     ELSE [ lists |-> generateList(self, ls, feedback, results),
            threw |-> FALSE,
            log   |-> emitted
                      \o <<Ev("generateList", feedback)>>
                      \o eventEmitter(self.inputField, feedback, "autoComplete.rendered")
                      \o navigate(self, feedback) ]

\* dataStore without the cache check: it fetches on every call
dataStore_noCache(self) ==
  IF self.data.src.type = "function"
    THEN [ this |-> self, pc |-> "src", log |-> <<Ev("data.src", Undefined)>> ]
  ELSE [ this |-> [self EXCEPT !.data.store = self.data.src],
         pc   |-> "resume",
         log  |-> eventEmitter(self.inputField, self.data.src, "autoComplete.fetch") ]

\* dataStore() up to its first suspension: a cache hit returns at once, a
\* function source is called and awaited, any other source is stored
dataStore(self) ==
  IF self.data.cache /\ Truthy(self.data.store)
    THEN [ this |-> self, pc |-> "resume", log |-> <<>> ]
  ELSE IF IsFunction(self.data.src)
    THEN [ this |-> self, pc |-> "src", log |-> <<Ev("data.src", Undefined)>> ]
  ELSE [ this |-> [self EXCEPT !.data.store = self.data.src],
         pc   |-> "resume",
         log  |-> eventEmitter(self.inputField, self.data.src, "autoComplete.fetch") ]

\* dataStore that also turns the cache flag on once it has fetched
dataStoreSettle_marksCached(self, data) ==
  [ this |-> [self EXCEPT !.data.store = data, !.data.cache = TRUE],
    log  |-> eventEmitter(self.inputField, data, "autoComplete.fetch") ]

\* dataStore() once the awaited source has delivered `data`: the store is
\* written and the fetch event goes to this.inputField as it is by then
dataStoreSettle(self, data) ==
  [ this |-> [self EXCEPT !.data.store = data],
    log  |-> eventEmitter(self.inputField, data, "autoComplete.fetch") ]

\* a suspended call: `call` is the method the host or the timer called,
\* pc is where it waits ("src": data.src() has not settled, "resume": the
\* dataStore() it awaits is fulfilled, "rejected": it is rejected)
NoFlight == [call |-> "compose", input |-> <<>>, query |-> <<>>, pc |-> "done", log |-> <<>>]

\* compose that prepares the data whatever the trigger condition says
compose_noCondition(self, read, ls) ==
  LET input == read.value
      query == prepareQueryValue(input, self.query)
      d     == dataStore(self)
  IN [ this   |-> d.this,
       lists  |-> ls,
       threw  |-> FALSE,
       flight |-> [call |-> "compose", input |-> input, query |-> query, pc |-> d.pc,
                   log |-> Names(d.log)],
       log    |-> <<Ev("compose", [input |-> input, query |-> query])>> \o d.log ]

\* compose() up to its await, `read` being what getInputValue made of
\* this.inputField: flight is the suspended call (NoFlight when the call
\* has completed).  The entry "compose" records the call with the input
\* and the query it read; a read that throws ends the call there, rejected
compose(self, read, ls) ==
  IF read.threw
    THEN [ this   |-> self,
           lists  |-> ls,
           threw  |-> TRUE,
           flight |-> NoFlight,
           log    |-> <<Ev("compose", [threw |-> TRUE])>> ]
  ELSE
  LET input == read.value
      query == prepareQueryValue(input, self.query)
      triggerCondition == checkTriggerCondition(self, query)
      called == <<Ev("compose", [input |-> input, query |-> query])>>
  IN IF triggerCondition
       THEN LET d == dataStore(self)
            IN [ this   |-> d.this,
                 lists  |-> ls,
                 threw  |-> FALSE,
                 flight |-> [call |-> "compose", input |-> input, query |-> query, pc |-> d.pc,
                             log |-> Names(d.log)],
                 log    |-> called \o d.log ]
       ELSE [ this   |-> self,
              lists  |-> closeAllLists(self, ls, NoTarget),
              threw  |-> FALSE,
              flight |-> NoFlight,
              log    |-> called \o <<Ev("closeAllLists", Array(ls))>> ]

\* the input field read again after the await
composeLocals_reread(flight, read, self) ==
  [ input |-> read.value,
    query |-> prepareQueryValue(read.value, self.query) ]

\* the input and query a resumed compose() works with: the constants it
\* read before the await, whatever the input field holds by now
composeLocals(flight, read, self) ==
  [input |-> flight.input, query |-> flight.query]

\* compose continuing without closing the open lists
composeResume_noClose(self, read, ls, flight) ==
  LET l == composeLocals(flight, read, self)
      s == start(self, ls, l.input, l.query)
  IN [ lists |-> s.lists, threw |-> s.threw, log |-> s.log ]

\* compose() after the await: close all lists, start the engine
composeResume(self, read, ls, flight) ==
  LET l == composeLocals(flight, read, self)
      s == start(self, closeAllLists(self, ls, NoTarget), l.input, l.query)
  IN [ lists |-> s.lists, threw |-> s.threw,
       log   |-> <<Ev("closeAllLists", Array(ls))>> \o s.log ]

\* dataStore() when the awaited source rejects: the await throws, so the
\* assignment to data.store and the fetch event are never reached
dataStoreReject(self) ==
  [this |-> self, threw |-> TRUE, log |-> <<Ev("rejected", [call |-> "dataStore"])>>]

\* compose catching the rejection and going on to close the lists and search
composeReject_caught(self, read, ls, flight) ==
  LET r == composeResume(self, read, ls, flight)
  IN [ this |-> self, lists |-> r.lists, threw |-> r.threw, log |-> r.log ]

\* compose() when the dataStore() it awaits has rejected: the await
\* throws, nothing catches the error, the call ends there, rejected
composeReject(self, read, ls, flight) ==
  [ this |-> self, lists |-> ls, threw |-> TRUE,
    log |-> <<Ev("rejected", [call |-> "compose"])>> ]

\* the debounced closures an instance creates, numbered in the order init()
\* creates them; this.hook is the number of the latest, 0 before init()
Hooks == 1..MaxHooks

\* the closures bound to an event type on the input field
HooksOn(field, eventType) == {h \in Hooks : <<eventType, h>> \in field.listeners}

\* init(inputField): the instance keeps the reference, sets the placeholder
\* when it is truthy, makes a new debounced closure and binds it to every trigger
\* event, next to the listeners the element already has.  On null,
\* setAttribute throws a TypeError before the closure is made, and
\* addEventListener throws one after: either ends init() before its init
\* event, the reference and (in the second case) the closure being kept
init(self, field, element) ==
  LET hook   == self.hook + 1
      placed == ~Falsy(self.placeHolder)
      throws == element = "null" /\ self.trigger.event # <<>>
  IN IF placed /\ element = "null"
       THEN [ this  |-> [self EXCEPT !.inputField = element],
              field |-> field,
              threw |-> TRUE,
              log   |-> <<>> ]
     ELSE [ this  |-> [self EXCEPT !.inputField = element, !.hook = hook],
            field |-> IF element = "null" THEN field
                      ELSE [field EXCEPT
                              !.placeholder = IF placed THEN self.placeHolder ELSE @,
                              !.listeners =
                                @ \cup {<<e, hook>> : e \in Range(self.trigger.event)}],
            threw |-> throws,
            log   |-> IF throws THEN <<>> ELSE eventEmitter(element, Undefined, "init") ]

\* preInit(): a function selector is called, a string selector is handed
\* to querySelector; then emit connect, init
preInit(self, field) ==
  LET element == IF self.selector.type = "function"
                   THEN self.selector.value
                   ELSE querySelector(self.selector.value)
      i       == init(self, field, element)
  IN [i EXCEPT !.log = eventEmitter(element, Undefined, "connect") \o @]

\* unInit(): the "input" listener of the current hook is removed from
\* this.inputField, every other listener stays on it, and the unInit event
\* is emitted; removeEventListener on null throws a TypeError
unInit(self, field) ==
  IF self.inputField = "null"
    THEN [ field |-> field, threw |-> TRUE, log |-> <<>> ]
  ELSE [ field |-> [field EXCEPT !.listeners = @ \ {<<"input", self.hook>>}],
         threw |-> FALSE,
         log   |-> eventEmitter(self.inputField, Undefined, "autoComplete.unInit") ]


\* ------------------------------------------------------- configurations
Config(src, cache, store, query, event, condition, engine, threshold, debounce, render, maxResults, noResults, feedback) ==
  [ selector     |-> DefaultSelector,
    data         |-> [src |-> src, cache |-> cache, store |-> store],
    query        |-> query,
    trigger      |-> [event |-> event, condition |-> condition],
    searchEngine |-> engine,
    threshold    |-> threshold,
    debounce     |-> debounce,
    resultsList  |-> [render |-> render],
    maxResults   |-> maxResults,
    noResults    |-> noResults,
    feedback     |-> feedback ]

\* how the data is obtained: a function source without the cache, where
\* every query of a letter or more is searched once its "z" padding is
\* dropped, and with the cache, empty or configured with a store, where
\* only three letters are
FetchConfigs ==
  { Config(Function, FALSE, Undefined, "dropZ", <<"input">>, "undefined", "strict", 1,
           0, TRUE, 2, "noResults", "feedback") }
  \cup
  { Config(Function, TRUE, store, "undefined", <<"input">>, "undefined", "strict", 3,
           1, TRUE, 2, "noResults", "feedback") :
      store \in {Undefined, Array(DataB)} }

\* searches that overlap: a function source without the cache, where two
\* of the input values are searched as they are, and one with a debounce
\* delay and a configured store
OverlapConfigs ==
  { Config(Function, FALSE, Undefined, "undefined", <<"input">>, "undefined", "strict", 1,
           0, TRUE, 2, "noResults", "feedback"),
    Config(Function, TRUE, Array(DataB), "undefined", <<"input">>, "undefined", "strict", 3,
           1, TRUE, 2, "noResults", "feedback") }

\* what a search does with its matches, and whether there is one: rendering,
\* the cap on the results, the callbacks, the navigation, the threshold and
\* the trigger condition vary
StartConfigs ==
  { Config(Array(DataA), FALSE, Undefined, "undefined", <<"input">>, "undefined", "strict", 1,
           0, TRUE, 2, "noResults", "feedback") }
  \cup
  { Config(Array(DataA), FALSE, Undefined, "undefined", <<"input">>, "undefined", "strict", 1,
           0, render, 2, "undefined", "undefined") :
      render \in BOOLEAN }
  \cup
  { Config(Array(DataA), FALSE, Undefined, "undefined", <<"input">>, "undefined", "strict", 3,
           0, TRUE, 2, "noResults", "feedback"),
    Config(Array(DataA), FALSE, Undefined, "dropZ", <<"input">>, "startsA", "loose", 3,
           0, TRUE, 2, "noResults", "feedback") }
  \cup
  { Config(Function, TRUE, Undefined, "undefined", <<"input">>, "undefined", "strict", 3,
           1, TRUE, 2, "noResults", "feedback") }
  \cup
  { [ Config(Array(DataA), FALSE, Undefined, "undefined", <<"input">>, "undefined", "strict", 1,
             0, render, 1, "noResults", "feedback")
        EXCEPT !.resultsList = [render |-> render, navigation |-> TRUE] ] :
      render \in BOOLEAN }

\* when compose() is triggered and what the instance is attached to: the
\* debounce delay, the trigger events, the selector, the destination and
\* the placeholder (a text, or the empty string) vary
DebounceConfigs ==
  { Config(Array(DataA), FALSE, Undefined, "undefined", event, "undefined", "strict", 1,
           debounce, TRUE, 2, "noResults", "feedback") :
      event \in EventLists, debounce \in {0, 1} }
  \cup
  { Config(Function, TRUE, Undefined, "undefined", <<"input", "focus">>, "undefined", "strict", 3,
           2, TRUE, 2, "noResults", "feedback") }
  \cup
  { [ Config(Array(DataA), FALSE, Undefined, "undefined", event, "undefined", "strict", 1,
             0, TRUE, 2, "noResults", "feedback") EXCEPT !.selector = Selector("#missing") ] :
      event \in EventLists }
  \cup
  { [ Config(Array(DataA), FALSE, Undefined, "undefined", <<"input">>, "undefined", "strict", 1,
             1, TRUE, 2, "noResults", "feedback") EXCEPT !.selector = SelectorFn("inputField") ] }
  \cup
  { [ Config(Array(DataA), FALSE, Undefined, "undefined", <<"input">>, "undefined", "strict", 1,
             0, TRUE, 2, "noResults", "feedback")
        EXCEPT !.resultsList = [render |-> TRUE, destination |-> "null"] ] }
  \cup
  { [ placeHolder |-> text ] @@
      Config(Array(DataA), FALSE, Undefined, "undefined", <<"input">>, "undefined", "strict", 1,
             0, TRUE, 2, "noResults", "feedback") :
      text \in {"Search", ""} }

\* what is searched: the store and the engine vary, and for the store of
\* the scenario the comparator; every query is long enough and one result is
\* shown
MatchConfigs ==
  { Config(Array(store), FALSE, Undefined, "undefined", <<"input">>, "undefined", engine, 0,
           0, TRUE, 1, "noResults", "feedback") :
      store \in Stores \cup {ScenarioStore}, engine \in {"strict", "loose"} }
  \cup
  { [ sort |-> "byLength" ] @@
      Config(Array(ScenarioStore), FALSE, Undefined, "undefined", <<"input">>, "undefined", engine, 0,
             0, TRUE, 1, "noResults", "feedback") :
      engine \in {"strict", "loose"} }

\* --------------------------------------------------------------- state
\* phase is "attached" once the constructor has returned the instance,
\* "detached" after an unInit() that removed the listener (until the next
\* init() that binds one), and "broken" when the constructor threw: `new`
\* then hands the host no instance to call, init() has bound no listener
\* for an event to reach and the click listener of the constructor's last
\* line was never registered, so nothing follows.  A host call of init()
\* with null on a constructed instance throws too, but the instance, its
\* listeners, timers and suspended calls go on as they are, with
\* this.inputField null.
Constructed == phase # "broken"

Obs(log) == [log |-> log, threw |-> FALSE]

Call(name, detail) == <<Ev(name, detail)>>

Has(log, name) == \E i \in DOMAIN log : log[i].e = name

\* the suspended calls whose awaited promise has settled, in the order
\* their continuations were queued
Ready(fs) == {i \in DOMAIN fs : fs[i].pc \in {"resume", "rejected"}}

FirstReady(fs) == CHOOSE i \in Ready(fs) : \A j \in Ready(fs) : i <= j

InitWith(configs) ==
  \E config \in configs :
    LET c == preInit(constructor(config), PageInput)
    IN /\ this = c.this
       /\ inputField = c.field
       /\ lists = <<>>
       /\ flights = <<>>
       /\ timers = <<>>
       /\ phase = IF c.threw THEN "broken" ELSE "attached"
       /\ obs = [Obs(c.log) EXCEPT !.threw = c.threw]

Init == InitWith(FetchConfigs)

InitStart == InitWith(StartConfigs)

InitOverlap == InitWith(OverlapConfigs)

InitDebounce == InitWith(DebounceConfigs)

\* the instance constructed on an input field that already holds a query
InitMatch ==
  \E config \in MatchConfigs, q \in Strings :
    LET c == preInit(constructor(config), PageInput)
    IN /\ this = c.this
       /\ inputField = [c.field EXCEPT !.value = q]
       /\ lists = <<>>
       /\ flights = <<>>
       /\ timers = <<>>
       /\ phase = "attached"
       /\ obs = [Obs(c.log) EXCEPT !.threw = c.threw]

\* the listeners of one event run in the order they were added: each bound
\* closure in `hooks` runs its debouncer
RECURSIVE RunHooks(_, _, _, _)
RunHooks(slots, hooks, delay, det) ==
  IF hooks = {} THEN slots
  ELSE LET h == CHOOSE x \in hooks : \A y \in hooks : x <= y
       IN RunHooks(debouncer(slots, h, delay, det), hooks \ {h}, delay, det)

RECURSIVE HookCalls(_)
HookCalls(hooks) ==
  IF hooks = {} THEN <<>>
  ELSE LET h == CHOOSE x \in hooks : \A y \in hooks : x <= y
       IN <<Ev("hook", [hook |-> h])>> \o HookCalls(hooks \ {h})

\* an event of type eventType reaches the input field (an "input" event
\* after the user changed the value to v); every bound hook runs its
\* debouncer.  The event comes when the timers it sets fit in MaxInFlight
Dispatch(eventType, v) ==
  /\ Constructed
  /\ eventType # "input" => v = inputField.value
  /\ inputField' = [inputField EXCEPT !.value = v]
  /\ Len(RunHooks(timers, HooksOn(inputField, eventType), this.debounce,
                  phase = "detached")) + Len(flights) <= MaxInFlight
  /\ timers' = RunHooks(timers, HooksOn(inputField, eventType), this.debounce,
                        phase = "detached")
  /\ obs' = Obs(HookCalls(HooksOn(inputField, eventType)))
  /\ UNCHANGED <<this, lists, flights, phase>>

\* time passes: every running timer comes one unit closer
Tick ==
  /\ Ready(flights) = {}
  /\ \E i \in DOMAIN timers : timers[i].left > 0
  /\ timers' = [i \in DOMAIN timers |->
                  IF timers[i].left > 0
                    THEN [timers[i] EXCEPT !.left = @ - 1, !.waited = @ + 1]
                    ELSE timers[i]]
  /\ obs' = Obs(<<>>)
  /\ UNCHANGED <<this, inputField, lists, flights, phase>>

\* compose() runs to its await; `caller` is the log entry of who called it.
\* A call that suspends is made when it fits in MaxInFlight
Composing(caller) ==
  \E read \in getInputValue(this.inputField, inputField) :
    LET c == compose(this, read, lists)
        done == c.flight.pc = "done"
    IN /\ Constructed
       /\ ~done => Len(flights) + Len(timers') < MaxInFlight
       /\ this' = c.this
       /\ lists' = c.lists
       /\ flights' = IF done THEN flights ELSE Append(flights, c.flight)
       /\ obs' = [Obs(caller \o c.log) EXCEPT !.threw = c.threw]
       /\ UNCHANGED <<inputField, phase>>

\* the debounce timer of closure h expires and its callback calls
\* compose(); expired timers run in the order they were set
TimerFire(h) ==
  /\ Ready(flights) = {}
  /\ timers # <<>>
  /\ Head(timers).hook = h
  /\ Head(timers).left = 0
  /\ timers' = Tail(timers)
  /\ Composing(Call("timer", Head(timers)))

\* the host calls compose() itself
ComposeCall ==
  /\ UNCHANGED timers
  /\ Composing(<<>>)

\* the host calls dataStore() itself: a cache hit and a source that is not
\* a function finish in the call, a function source leaves it suspended
DataStoreCall ==
  LET d == dataStore(this)
  IN /\ Constructed
     /\ d.pc = "src" => Len(flights) + Len(timers) < MaxInFlight
     /\ this' = d.this
     /\ flights' = IF d.pc = "src"
                     THEN Append(flights, [NoFlight EXCEPT !.call = "dataStore", !.pc = "src",
                                                           !.log = Names(d.log)])
                     ELSE flights
     /\ obs' = Obs(Call("dataStore", Undefined) \o d.log)
     /\ UNCHANGED <<inputField, lists, timers, phase>>

\* the source awaited by suspended call i delivers `data`: its dataStore()
\* writes the store, emits fetch and is fulfilled.  A dataStore() the host
\* called ends there; a compose() awaiting it is queued to continue after
\* the calls already queued
SrcResolve(i, data) ==
  /\ i \in DOMAIN flights
  /\ flights[i].pc = "src"
  /\ LET d == dataStoreSettle(this, data)
         f == [flights[i] EXCEPT !.pc = "resume", !.log = @ \o Names(d.log)]
     IN /\ this' = d.this
        /\ flights' = IF flights[i].call = "dataStore"
                        THEN RemoveAt(flights, i)
                        ELSE Append(RemoveAt(flights, i), f)
        /\ obs' = Obs(d.log)
  /\ UNCHANGED <<inputField, lists, timers, phase>>

\* the source awaited by suspended call i rejects: its dataStore() is
\* rejected.  A dataStore() the host called ends there, in the host's
\* hands; a compose() awaiting it is queued to have its await throw after
\* the calls already queued
SrcReject(i) ==
  /\ i \in DOMAIN flights
  /\ flights[i].pc = "src"
  /\ LET d == dataStoreReject(this)
         f == [flights[i] EXCEPT !.pc = "rejected"]
     IN /\ this' = d.this
        /\ flights' = IF flights[i].call = "dataStore"
                        THEN RemoveAt(flights, i)
                        ELSE Append(RemoveAt(flights, i), f)
        /\ obs' = [Obs(d.log) EXCEPT !.threw = flights[i].call = "dataStore"]
  /\ UNCHANGED <<inputField, lists, timers, phase>>

\* the suspended compose() first in the queue continues after its await
Resume ==
  /\ Ready(flights) # {}
  /\ flights[FirstReady(flights)].pc = "resume"
  /\ \E read \in getInputValue(this.inputField, inputField) :
       LET i == FirstReady(flights)
           r == composeResume(this, read, lists, flights[i])
       IN /\ lists' = r.lists
          /\ flights' = RemoveAt(flights, i)
          /\ obs' = [Obs(r.log) EXCEPT !.threw = r.threw]
  /\ UNCHANGED <<this, inputField, timers, phase>>

\* the suspended compose() first in the queue has its await throw
ComposeReject ==
  /\ Ready(flights) # {}
  /\ flights[FirstReady(flights)].pc = "rejected"
  /\ \E read \in getInputValue(this.inputField, inputField) :
       LET i == FirstReady(flights)
           r == composeReject(this, read, lists, flights[i])
       IN /\ this' = r.this
          /\ lists' = r.lists
          /\ flights' = RemoveAt(flights, i)
          /\ obs' = [Obs(r.log) EXCEPT !.threw = r.threw]
  /\ UNCHANGED <<inputField, timers, phase>>

\* the host calls start(input, query) itself, once the store holds data:
\* the search and the rendering of compose() without its closing of the
\* lists
StartCall(input, query) ==
  /\ Constructed
  /\ Truthy(this.data.store)
  /\ LET s == start(this, lists, input, query)
     IN /\ lists' = s.lists
        /\ obs' = [Obs(s.log) EXCEPT !.threw = s.threw]
  /\ UNCHANGED <<this, inputField, flights, timers, phase>>

\* what the host hands to init(): the page's input element, or null
InitArgs == {"inputField", "null"}

\* the host calls init(element) again; a call that throws binds nothing
\* and cancels nothing
InitCall(element) ==
  /\ Constructed
  /\ this.hook < MaxHooks
  /\ LET i == init(this, inputField, element)
     IN /\ this' = i.this
        /\ inputField' = i.field
        /\ obs' = [Obs(i.log) EXCEPT !.threw = i.threw]
        /\ phase' = IF i.threw THEN phase ELSE "attached"
  /\ UNCHANGED <<lists, flights, timers>>

\* the host calls preInit() again: the selector is resolved once more,
\* connect is emitted and init() runs on what was found
PreInitCall ==
  /\ Constructed
  /\ this.hook < MaxHooks
  /\ LET i == preInit(this, inputField)
     IN /\ this' = i.this
        /\ inputField' = i.field
        /\ obs' = [Obs(i.log) EXCEPT !.threw = i.threw]
        /\ phase' = IF i.threw THEN phase ELSE "attached"
  /\ UNCHANGED <<lists, flights, timers>>

\* a click listener that does not pass the event's target on
ClickDocument_noTarget(target) ==
  /\ Constructed
  /\ target = "list" => lists # <<>>
  /\ lists' = closeAllLists(this, lists, NoTarget)
  /\ obs' = Obs(Call("click", [target |-> target]))
  /\ UNCHANGED <<this, inputField, flights, timers, phase>>

\* a click somewhere in the document: the listener of the constructor
\* hands the event's target to closeAllLists
ClickDocument(target) ==
  /\ Constructed
  /\ target = "list" => lists # <<>>
  /\ lists' = closeAllLists(this, lists, target)
  /\ obs' = Obs(Call("click", [target |-> target]))
  /\ UNCHANGED <<this, inputField, flights, timers, phase>>

\* the host calls closeAllList(): closeAllLists without a target
CloseAllList ==
  /\ Constructed
  /\ lists' = closeAllLists(this, lists, NoTarget)
  /\ obs' = Obs(Call("closeAllList", Undefined))
  /\ UNCHANGED <<this, inputField, flights, timers, phase>>

\* the host calls unInit()
UnInit ==
  /\ Constructed
  /\ LET u == unInit(this, inputField)
     IN /\ inputField' = u.field
        /\ phase' = IF u.threw THEN phase ELSE "detached"
        /\ obs' = [Obs(u.log) EXCEPT !.threw = u.threw]
  /\ UNCHANGED <<this, lists, flights, timers>>

\* the arguments the host hands to start(): the input value and the query
\* made from it
StartArgs == { [input |-> <<"a","p">>, query |-> <<"a","p">>] }

Next ==
  \/ \E e \in EventTypes, v \in InputValues : Dispatch(e, v)
  \/ Tick
  \/ \E h \in Hooks : TimerFire(h)
  \/ ComposeCall
  \/ \E i \in 1..MaxInFlight, data \in Datasets : SrcResolve(i, Array(data))
  \/ \E i \in 1..MaxInFlight : SrcReject(i)
  \/ Resume
  \/ ComposeReject
  \/ DataStoreCall
  \/ \E a \in StartArgs : StartCall(a.input, a.query)
  \/ \E element \in InitArgs : InitCall(element)
  \/ PreInitCall
  \/ \E target \in {"inputField", "list", "outside"} : ClickDocument(target)
  \/ CloseAllList
  \/ UnInit

Spec == Init /\ [][Next]_vars

SpecStart == InitStart /\ [][Next]_vars

SpecOverlap == InitOverlap /\ [][Next]_vars

SpecDebounce == InitDebounce /\ [][Next]_vars

\* one search at a time over the matching inputs
NextMatch ==
  \/ flights = <<>> /\ lists = <<>> /\ ComposeCall
  \/ Resume

SpecMatch == InitMatch /\ [][NextMatch]_vars


\* ================================================================ claims
Count(log, name) == Cardinality({i \in DOMAIN log : log[i].e = name})

\* a step in which compose() is called, by the host or by the debounce timer
ComposeStep == ComposeCall \/ \E h \in Hooks : TimerFire(h)

\* a step in which the fetch of a suspended compose() fails
RejectStep == ComposeReject \/ \E i \in 1..MaxInFlight : SrcReject(i)

\* a step in which the host calls init(), itself or through preInit()
InitStep == PreInitCall \/ \E element \in InitArgs : InitCall(element)

\* a step in which the source a suspended dataStore() awaits delivers
FetchStep == \E i \in 1..MaxInFlight, data \in Datasets : SrcResolve(i, Array(data))

\* the query is shorter than the threshold and no custom condition holds
Short(self, query) ==
  /\ Len(query) < self.threshold
  /\ ~(self.trigger.condition # NoFn /\ ApplyCondition(self.trigger.condition, query))

\* the query a compose() would make of the value in the page's input element
CurrentQuery == prepareQueryValue(inputField.value, this.query)

\* an entry of the log recording a compose() that read its input and query
IsComposed(entry) == entry.e = "compose" /\ "query" \in DOMAIN entry.arg

\* the entries of a search that carry its feedback object, and the object
IsSearchEntry(name) ==
  name \in {"start", "autoComplete.results", "noResults", "feedback", "generateList",
            "autoComplete.rendered", "navigate", "navigation"}

FeedbackOf(entry) == IF entry.e = "noResults" THEN entry.arg.feedback ELSE entry.arg

\* C1: a compose() whose query is shorter than the threshold, with no custom
\* trigger condition holding, does not invoke the data source, leaves the
\* instance (data.store included) unchanged, does not run start(), emits no
\* autoComplete.fetch or autoComplete.results, suspends nothing, raises no
\* error and leaves no results list live.
C1_NoSearchBelowThreshold ==
  [][ \A i \in DOMAIN obs'.log :
        (IsComposed(obs'.log[i]) /\ Short(this, obs'.log[i].arg.query)) =>
          /\ this' = this
          /\ ~Has(obs'.log, "data.src")
          /\ ~Has(obs'.log, "autoComplete.fetch")
          /\ ~Has(obs'.log, "start")
          /\ ~Has(obs'.log, "autoComplete.results")
          /\ ~obs'.threw
          /\ flights' = flights
          /\ lists' = <<>> ]_vars

\* a compose() with a short query has just closed a list that was open
C1_Witness ==
  /\ lists = <<>>
  /\ \E i \in DOMAIN obs.log :
       IsComposed(obs.log[i]) /\ Short(this, obs.log[i].arg.query)
  /\ \E j \in DOMAIN obs.log :
       obs.log[j].e = "closeAllLists" /\ obs.log[j].arg.value # <<>>

\* C2: in the feedback object of every search, as start() builds it and as
\* every event and callback of the search receives it, for a positive
\* maxResults, results is the first min(maxResults, |matches|) elements of
\* matches in order, so |results| <= maxResults and |matches| >= |results|,
\* and matches holds every matching record of the store.
C2_ResultsArePrefix ==
  \A i \in DOMAIN obs.log :
    (IsSearchEntry(obs.log[i].e) /\ this.maxResults > 0) =>
      LET fb == FeedbackOf(obs.log[i])
          n  == Min(this.maxResults, Len(fb.matches))
      IN /\ fb.results = SubSeq(fb.matches, 1, n)
         /\ Len(fb.results) <= this.maxResults
         /\ Len(fb.matches) >= Len(fb.results)
         /\ Len(fb.matches) =
              Cardinality({k \in DOMAIN this.data.store.value :
                             search(this.searchEngine, fb.query, this.data.store.value[k])})

\* a search found more matches than maxResults and cut the results
C2_Witness ==
  \E i \in DOMAIN obs.log :
    /\ obs.log[i].e = "start"
    /\ Len(obs.log[i].arg.matches) > this.maxResults
    /\ Len(obs.log[i].arg.results) = this.maxResults

C4_CacheHitNoFetch ==
  [][ (this.data.cache /\ Truthy(this.data.store) /\ (ComposeStep \/ DataStoreCall)) =>
        /\ this' = this
        /\ ~Has(obs'.log, "data.src")
        /\ ~Has(obs'.log, "autoComplete.fetch")
        /\ flights' # flights =>
             /\ flights'[Len(flights')].pc = "resume"
             /\ flights'[Len(flights')].log = <<>> ]_vars

\* a compose() with a function source has just run on a populated cache
C4_Witness ==
  /\ this.data.cache /\ Truthy(this.data.store) /\ IsFunction(this.data.src)
  /\ \E i \in DOMAIN obs.log : IsComposed(obs.log[i])
  /\ ~Has(obs.log, "data.src") /\ ~Has(obs.log, "autoComplete.fetch")
  /\ flights # <<>>

\* C5: a compose() starting while others await their fetch cancels none of
\* them; only a call's own continuation (or the failure of its own fetch)
\* ends it, and the continuation closes the lists, searches and renders
\* with the input and query the call read before its fetch, leaving its
\* list as the only live one.
C5_OverlapLastRenderWins ==
  [][ /\ ( /\ flights' # flights
            /\ ~( \A i \in DOMAIN flights :
                    flights[i].call = "compose" =>
                      \E j \in DOMAIN flights' :
                        /\ flights'[j].call = "compose"
                        /\ flights'[j].input = flights[i].input
                        /\ flights'[j].query = flights[i].query ) )
           => (Resume \/ ComposeReject)
      /\ ( /\ flights' # flights
            /\ Cardinality({i \in DOMAIN flights' : flights'[i].call = "compose"})
                 < Cardinality({i \in DOMAIN flights : flights[i].call = "compose"}) )
           => (Resume \/ ComposeReject)
      /\ Has(obs'.log, "compose") =>
           \/ flights' = flights
           \/ /\ Len(flights') = Len(flights) + 1
              /\ SubSeq(flights', 1, Len(flights)) = flights
      /\ (Len(flights') < Len(flights) /\ Resume) =>
           LET f == flights[FirstReady(flights)]
           IN /\ obs'.log[1].e = "closeAllLists"
              /\ Has(obs'.log, "start")
              /\ \A k \in DOMAIN obs'.log :
                   IsSearchEntry(obs'.log[k].e) =>
                     /\ FeedbackOf(obs'.log[k]).input = f.input
                     /\ FeedbackOf(obs'.log[k]).query = f.query
              /\ Has(obs'.log, "generateList") =>
                   /\ Len(lists') = 1
                   /\ lists'[1].query = f.query ]_vars

\* every compose has finished; the last trigger's compose read the value
\* now in the input field, passed the trigger condition and so fetched and
\* searched; yet the list on display, just rendered, is for another (older)
\* query, whose fetch resolved last
C5_Witness ==
  /\ IsFunction(this.data.src)
  /\ this.inputField = "inputField"
  /\ phase = "attached" /\ HooksOn(inputField, "input") # {}
  /\ timers = <<>>
  /\ flights = <<>>
  /\ ~Short(this, CurrentQuery)
  /\ Has(obs.log, "closeAllLists")
  /\ Has(obs.log, "generateList")
  /\ lists # <<>>
  /\ lists[1].query # CurrentQuery

\* C6, as stated: at most one debounce timer is pending; a trigger event
\* starts no compose() but cancels the pending timer and sets one for the
\* whole delay; the timer that fires has waited the whole delay since the
\* last event, calls compose() exactly once and leaves no timer pending.
C6_OneTimerOneCompose ==
  /\ [](Len(timers) <= 1)
  /\ [][ /\ Has(obs'.log, "hook") =>
              /\ flights' = flights
              /\ ~Has(obs'.log, "compose")
              /\ Len(timers') = 1
              /\ timers'[1].left = this.debounce
              /\ timers'[1].waited = 0
         /\ Has(obs'.log, "timer") =>
              /\ Head(timers).waited >= this.debounce
              /\ timers' = <<>>
              /\ Count(obs'.log, "compose") = 1 ]_vars

\* C7: after unInit() no later trigger event on the input field starts a
\* compose(): no timer set by the hook after unInit() ever calls compose().
C7_DetachedIsTerminal ==
  \A i \in DOMAIN obs.log :
    obs.log[i].e = "timer" => ~obs.log[i].arg.detached

IsCycleEvent(name) ==
  name \in {"autoComplete.fetch", "autoComplete.results", "generateList",
            "autoComplete.rendered"}

CycleOrders ==
  { <<"autoComplete.results">>,
    <<"autoComplete.fetch", "autoComplete.results">>,
    <<"autoComplete.results", "generateList", "autoComplete.rendered">>,
    <<"autoComplete.fetch", "autoComplete.results", "generateList",
      "autoComplete.rendered">> }

\* C8, as stated: over one compose cycle the events come in the order
\* autoComplete.fetch (only if the source was called), autoComplete.results
\* (once, in every search), then the list generation and
\* autoComplete.rendered (never without a generated list); a compose that
\* does not search emits none of them.
C8_EventOrder ==
  [][ /\ Resume =>
           LET f   == flights[FirstReady(flights)]
               all == f.log \o Names(obs'.log)
           IN /\ SelectSeq(all, IsCycleEvent) \in CycleOrders
              /\ IsFunction(this.data.src) =>
                   ("autoComplete.fetch" \in Range(all) <=> "data.src" \in Range(all))
              /\ Has(obs'.log, "autoComplete.rendered") => lists' # <<>>
      /\ (ComposeStep /\ flights' = flights) =>
           SelectSeq(Names(obs'.log), IsCycleEvent) = <<>> ]_vars

\* C9: a search with no match calls the noResults action, when configured,
\* exactly once with the feedback object (and generateList), generates no
\* list, emits no autoComplete.rendered, neither calls navigate nor activates
\* the navigation, raises no error and, the compose() it ran in having
\* closed the lists, leaves no list live.
C9_NoResults ==
  \A i \in DOMAIN obs.log :
    (obs.log[i].e = "start" /\ Len(obs.log[i].arg.matches) = 0) =>
      /\ Count(obs.log, "noResults") = (IF this.noResults # NoFn THEN 1 ELSE 0)
      /\ \A j \in DOMAIN obs.log :
           obs.log[j].e = "noResults" =>
             /\ obs.log[j].arg.feedback = obs.log[i].arg
             /\ DOMAIN obs.log[j].arg.feedback = {"input", "query", "matches", "results"}
      /\ ~Has(obs.log, "generateList")
      /\ ~Has(obs.log, "autoComplete.rendered")
      /\ ~Has(obs.log, "navigate")
      /\ ~Has(obs.log, "navigation")
      /\ ~obs.threw
      /\ Has(obs.log, "closeAllLists") => lists = <<>>

\* a search with no match has just called the noResults action, after
\* closing a list that was open
C9_Witness ==
  /\ \E i \in DOMAIN obs.log :
       /\ obs.log[i].e = "noResults"
       /\ obs.log[i].arg.feedback.matches = <<>>
  /\ \E j \in DOMAIN obs.log :
       obs.log[j].e = "closeAllLists" /\ obs.log[j].arg.value # <<>>

\* C10, as stated: with resultsList.render disabled, a search with at least
\* one match calls the feedback callback exactly once with the feedback
\* object { input, query, matches, results }, generates no list, emits no
\* autoComplete.rendered and starts no navigation.
C10_RenderDisabled ==
  \A i \in DOMAIN obs.log :
    ( /\ obs.log[i].e = "start"
      /\ Len(obs.log[i].arg.matches) >= 1
      /\ ~this.resultsList.render ) =>
      /\ Count(obs.log, "feedback") = 1
      /\ \A j \in DOMAIN obs.log :
           obs.log[j].e = "feedback" =>
             /\ obs.log[j].arg = obs.log[i].arg
             /\ DOMAIN obs.log[j].arg = {"input", "query", "matches", "results"}
      /\ ~Has(obs.log, "generateList")
      /\ ~Has(obs.log, "autoComplete.rendered")
      /\ ~Has(obs.log, "navigate")

\* C11: when the asynchronous data.src awaited by a compose() rejects, the
\* dataStore() of that compose() is rejected first and the call is queued;
\* when its turn comes the compose() call rejects and does nothing further.
\* In both steps the open list stays open, start() does not run, no
\* autoComplete.fetch or autoComplete.results is emitted, the instance
\* (data.store included) is unchanged and the source is not called again;
\* in the end the call is gone and the others are as they were.
C11_RejectedFetchStops ==
  [][ /\ obs'.log # <<>> /\ obs'.log[1].e = "rejected" =>
           /\ lists' = lists
           /\ this' = this
           /\ timers' = timers
           /\ Len(obs'.log) = 1
      /\ \A i \in 1..MaxInFlight :
           (Len(flights') = Len(flights) /\ SrcReject(i)) =>
             /\ ~obs'.threw
             /\ flights' = Append(RemoveAt(flights, i),
                                  [flights[i] EXCEPT !.pc = "rejected"])
      /\ (Len(flights') < Len(flights) /\ ComposeReject) =>
           /\ obs'.threw
           /\ obs'.log[1].arg.call = "compose"
           /\ flights' = RemoveAt(flights, FirstReady(flights)) ]_vars

\* a compose() has just been rejected, its source having rejected while a
\* list was open
C11_Witness ==
  /\ IsFunction(this.data.src)
  /\ obs.threw
  /\ obs.log = <<Ev("rejected", [call |-> "compose"])>>
  /\ lists # <<>>

\* the element the instance's selector resolves to on the page
Resolved ==
  IF this.selector.type = "function" THEN this.selector.value
  ELSE querySelector(this.selector.value)

\* C12: constructing an instance whose selector matches no element
\* completes without raising an error, and leaves the instance with no
\* input field reference and no trigger listener bound.
C12_MissingSelectorIsSilent ==
  Resolved = "null" =>
    /\ ~obs.threw
    /\ this.inputField = "null"
    /\ inputField.listeners = {}

\* C13, as stated: keyboard navigation is activated for a search only when
\* resultsList.navigation is enabled and the results are non-empty; in every
\* search where navigation is disabled, or the matches are empty, or
\* rendering is disabled, navigate is not started.
C13_NavigationOnlyWhenEnabled ==
  \A i \in DOMAIN obs.log :
    obs.log[i].e = "start" =>
      LET fb == obs.log[i].arg
      IN /\ Has(obs.log, "navigation") =>
              (this.resultsList.navigation /\ Len(fb.results) > 0)
         /\ ( \/ ~this.resultsList.navigation
              \/ Len(fb.matches) = 0
              \/ ~this.resultsList.render ) =>
              /\ ~Has(obs.log, "navigate")
              /\ ~Has(obs.log, "navigation")

ContainsContiguous(r, q) ==
  \E i \in 1..(Len(r) + 1) :
    /\ i + Len(q) - 1 <= Len(r)
    /\ SubSeq(r, i, i + Len(q) - 1) = q

\* the ways to find the characters of the query in the record at growing
\* places
Embeddings(r, q) ==
  { f \in [1..Len(q) -> 1..Len(r)] :
      /\ \A k, l \in 1..Len(q) : k < l => f[k] < f[l]
      /\ \A k \in 1..Len(q) : r[f[k]] = q[k] }

ContainsInOrder(r, q) == Embeddings(r, q) # {}

\* the characters of the record lying between the first and the last
\* character of the query, each found as early in the record as can be
Between(r, q) ==
  IF Len(q) <= 1 THEN 0
  ELSE LET e == Embeddings(r, q)
           f == CHOOSE g \in e : \A h \in e : \A k \in 1..Len(q) : g[k] <= h[k]
       IN f[Len(q)] - f[1] + 1 - Len(q)

\* the matches are exactly the records of the store that the engine's rule
\* accepts for the query, each once
SameRecords(fb) ==
  LET store == this.data.store.value
      want  == {k \in DOMAIN store :
                  IF this.searchEngine = "loose"
                    THEN ContainsInOrder(store[k], fb.query)
                    ELSE ContainsContiguous(store[k], fb.query)}
  IN /\ Len(fb.matches) = Cardinality(want)
     /\ \A m \in DOMAIN fb.matches :
          /\ fb.matches[m].index \in want
          /\ fb.matches[m].value = store[fb.matches[m].index]
     /\ \A m, n \in DOMAIN fb.matches :
          m # n => fb.matches[m].index # fb.matches[n].index

\* the matches are in the order of the store
InOriginalOrder(fb) ==
  \A m, n \in DOMAIN fb.matches :
    m < n => fb.matches[m].index < fb.matches[n].index

\* the matches are in the order of their gap size, those of one gap size in
\* the order of the store
InGapOrder(fb) ==
  \A m, n \in DOMAIN fb.matches :
    m < n =>
      LET gm == Between(fb.matches[m].value, fb.query)
          gn == Between(fb.matches[n].value, fb.query)
      IN gm < gn \/ (gm = gn /\ fb.matches[m].index < fb.matches[n].index)

\* the matches are in the order of the host's comparator (shorter records
\* first)
InSortOrder(fb) ==
  \A m, n \in DOMAIN fb.matches :
    m < n => Len(fb.matches[m].value) <= Len(fb.matches[n].value)

\* a strict search for "ap" in the store of the scenario, nothing sorted
Scenario(fb) ==
  /\ this.data.store.value = ScenarioStore
  /\ this.searchEngine = "strict"
  /\ this.sort = NoSort
  /\ fb.query = <<"a", "p">>

C17_ConfigurationIsFrozen ==
  [][ /\ this' = [this EXCEPT !.data.store = this'.data.store,
                              !.inputField = this'.inputField,
                              !.hook = this'.hook]
      /\ this' # [this EXCEPT !.data.store = this'.data.store] => InitStep
      /\ this'.data.store # this.data.store =>
           \/ FetchStep
           \/ /\ ~IsFunction(this.data.src)
              /\ ~(this.data.cache /\ Truthy(this.data.store))
              /\ ComposeStep \/ DataStoreCall
      /\ (this'.data.store # this.data.store /\ this.inputField # "null") =>
           Has(obs'.log, "autoComplete.fetch")
      /\ \A k \in DOMAIN obs'.log :
           obs'.log[k].e = "autoComplete.fetch" => this'.data.store = obs'.log[k].arg ]_vars

\* a function source has just delivered and dataStore() has stored what it
\* fetched
C17_Witness ==
  /\ IsFunction(this.data.src)
  /\ ~this.data.cache
  /\ \E k \in DOMAIN obs.log :
       /\ obs.log[k].e = "autoComplete.fetch"
       /\ this.data.store = obs.log[k].arg
       /\ this.data.store = Array(DataA)

\* C18: when no resultsList.destination is configured (no configuration
\* here sets one), resultsList.destination is the resolved input field once
\* construction has finished.
C18_DestinationIsInputField ==
  Resolved # "null" =>
    this.resultsList.destination = this.inputField

\* C19, as stated: the callback hooks are optional: whichever of them are
\* omitted, a search that passes the trigger condition completes without
\* raising an error, the search with rendering disabled, at least one match
\* and no feedback handler included.
C19_HooksAreOptional ==
  Has(obs.log, "autoComplete.results") => ~obs.threw

\* C20, as stated: the no-results path comes before the render-disabled
\* path: a search with no match and rendering disabled does not call the
\* feedback callback, only noResults (if configured); and exactly one of the
\* three outcomes happens per search: noResults (the action called, if
\* configured), feedback (the callback called), render (a list generated).
C20_NoResultsFirst ==
  \A i \in DOMAIN obs.log :
    obs.log[i].e = "start" =>
      LET fb          == obs.log[i].arg
          outNone     == \/ Has(obs.log, "noResults")
                         \/ Len(fb.matches) = 0 /\ this.noResults = NoFn
          outFeedback == Has(obs.log, "feedback")
          outRender   == Has(obs.log, "generateList")
      IN /\ (Len(fb.matches) = 0 /\ ~this.resultsList.render) =>
              /\ ~Has(obs.log, "feedback")
              /\ Count(obs.log, "noResults") = (IF this.noResults # NoFn THEN 1 ELSE 0)
         /\ Cardinality({w \in {"noResults", "feedback", "render"} :
                           \/ w = "noResults" /\ outNone
                           \/ w = "feedback" /\ outFeedback
                           \/ w = "render" /\ outRender}) = 1

====
